---- MODULE Spec2Model ----
(***************************************************************************)
(* Black-Scholes pricing engine (black_scholes_functions.py), the market   *)
(* data fetchers (load_financial_data.py) and the Dash callback            *)
(* calculate_options_and_greeks (app.py).                                  *)
(*                                                                         *)
(* Numbers are IEEE-754 doubles.  A double is modelled by its class: NaN,  *)
(* the two infinities, the two zeros, the points -1 and 1, and the four    *)
(* open intervals between them.  Every arithmetic operator returns the set *)
(* of classes the rounded IEEE result of operands of the given classes can *)
(* fall in (overflow to an infinity, underflow to a zero and the invalid   *)
(* operations 0/0, inf-inf, 0*inf, inf/inf included).                      *)
(***************************************************************************)
EXTENDS Integers, Sequences, FiniteSets, TLC

\* ------------------------------------------------------------------------
\* Classes of doubles
\* ------------------------------------------------------------------------

Classes ==
    {"NaN", "NInf", "LtM1", "M1", "NFrac", "NZero",
     "PZero", "PFrac", "One", "Gt1", "PInf"}

Negative == {"NInf", "LtM1", "M1", "NFrac"}
Zeros == {"NZero", "PZero"}
Finite == Classes \ {"NaN", "NInf", "PInf"}

\* a finite double > 0: what the specification calls a valid S, K, T, sigma
ValidPositive == {"PFrac", "One", "Gt1"}

Sign(c) == IF c \in Negative \cup {"NZero"} THEN -1 ELSE 1

Mag(c) ==
    CASE c \in {"NInf", "PInf"} -> "I"
      [] c \in {"LtM1", "Gt1"} -> "G"
      [] c \in {"M1", "One"} -> "O"
      [] c \in {"NFrac", "PFrac"} -> "F"
      [] c \in Zeros -> "Z"

Mk(s, m) ==
    CASE m = "I" -> IF s < 0 THEN "NInf" ELSE "PInf"
      [] m = "G" -> IF s < 0 THEN "LtM1" ELSE "Gt1"
      [] m = "O" -> IF s < 0 THEN "M1" ELSE "One"
      [] m = "F" -> IF s < 0 THEN "NFrac" ELSE "PFrac"
      [] m = "Z" -> IF s < 0 THEN "NZero" ELSE "PZero"

Neg(c) == IF c = "NaN" THEN "NaN" ELSE Mk(0 - Sign(c), Mag(c))

\* Magnitude of a product; "N" stands for the invalid operation 0 * inf.
MulMag(a, b) ==
    CASE a = "Z" /\ b = "I" -> {"N"}
      [] a = "I" /\ b = "Z" -> {"N"}
      [] a = "Z" \/ b = "Z" -> {"Z"}
      [] a = "I" \/ b = "I" -> {"I"}
      [] a = "O" -> {b}
      [] b = "O" -> {a}
      [] a = "F" /\ b = "F" -> {"Z", "F"}
      [] a = "G" /\ b = "G" -> {"G", "I"}
      [] OTHER -> {"F", "O", "G"}

Mul(x, y) ==
    IF x = "NaN" \/ y = "NaN" THEN {"NaN"}
    ELSE LET ms == MulMag(Mag(x), Mag(y))
         IN  IF "N" \in ms THEN {"NaN"}
             ELSE {Mk(Sign(x) * Sign(y), m) : m \in ms}

\* Magnitude of a quotient a / b; "N" stands for 0/0 and inf/inf.
DivMag(a, b) ==
    CASE a = "Z" /\ b = "Z" -> {"N"}
      [] a = "I" /\ b = "I" -> {"N"}
      [] a = "Z" -> {"Z"}
      [] b = "I" -> {"Z"}
      [] a = "I" -> {"I"}
      [] b = "Z" -> {"I"}
      [] b = "O" -> {a}
      [] a = "F" /\ b = "F" -> {"F", "O", "G", "I"}
      [] a = "F" /\ b = "G" -> {"Z", "F"}
      [] a = "O" /\ b = "F" -> {"G", "I"}
      [] a = "O" /\ b = "G" -> {"F"}
      [] a = "G" /\ b = "F" -> {"G", "I"}
      [] a = "G" /\ b = "G" -> {"F", "O", "G"}

Div(x, y) ==
    IF x = "NaN" \/ y = "NaN" THEN {"NaN"}
    ELSE LET ms == DivMag(Mag(x), Mag(y))
         IN  IF "N" \in ms THEN {"NaN"}
             ELSE {Mk(Sign(x) * Sign(y), m) : m \in ms}

\* Bounds of a finite non-zero class on the real line; 9 stands for infinity.
Lo(c) ==
    CASE c = "LtM1" -> -9
      [] c \in {"M1", "NFrac"} -> -1
      [] c = "PFrac" -> 0
      [] c \in {"One", "Gt1"} -> 1

Hi(c) ==
    CASE c \in {"LtM1", "M1"} -> -1
      [] c = "NFrac" -> 0
      [] c \in {"PFrac", "One"} -> 1
      [] c = "Gt1" -> 9

IsPoint(c) == c \in {"M1", "One"}

\* Sum of two finite non-zero doubles: the classes met by the real interval
\* of the sums, its end points -1 and 1 when rounding can land on them, +0
\* when the operands can cancel exactly, an infinity when both operands can
\* be huge.
AddFinite(x, y) ==
    LET L == IF Lo(x) = -9 \/ Lo(y) = -9 THEN -9 ELSE Lo(x) + Lo(y)
        H == IF Hi(x) = 9 \/ Hi(y) = 9 THEN 9 ELSE Hi(x) + Hi(y)
    IN  IF IsPoint(x) /\ IsPoint(y)
        THEN {IF L < 0 THEN "LtM1" ELSE IF L > 0 THEN "Gt1" ELSE "PZero"}
        ELSE {c \in Finite :
                \/ c = "LtM1" /\ L < -1
                \/ c = "M1" /\ L <= -1 /\ -1 <= H
                \/ c = "NFrac" /\ L < 0 /\ H > -1
                \/ c = "PZero" /\ L < 0 /\ 0 < H
                \/ c = "PFrac" /\ L < 1 /\ H > 0
                \/ c = "One" /\ L <= 1 /\ 1 <= H
                \/ c = "Gt1" /\ H > 1}
             \cup (IF x = "Gt1" /\ y = "Gt1" THEN {"PInf"} ELSE {})
             \cup (IF x = "LtM1" /\ y = "LtM1" THEN {"NInf"} ELSE {})

Add(x, y) ==
    CASE x = "NaN" \/ y = "NaN" -> {"NaN"}
      [] Mag(x) = "I" /\ Mag(y) = "I" -> IF x = y THEN {x} ELSE {"NaN"}
      [] Mag(x) = "I" -> {x}
      [] Mag(y) = "I" -> {y}
      [] x \in Zeros /\ y \in Zeros -> IF x = y THEN {x} ELSE {"PZero"}
      [] x \in Zeros -> {y}
      [] y \in Zeros -> {x}
      [] OTHER -> AddFinite(x, y)

Sub(x, y) == Add(x, Neg(y))

\* np.log
Log(x) ==
    CASE x = "NaN" \/ x \in Negative -> {"NaN"}
      [] x \in Zeros -> {"NInf"}
      [] x = "PFrac" -> {"LtM1", "M1", "NFrac"}
      [] x = "One" -> {"PZero"}
      [] x = "Gt1" -> {"PFrac", "One", "Gt1"}
      [] x = "PInf" -> {"PInf"}

\* np.sqrt
Sqrt(x) ==
    CASE x = "NaN" \/ x \in Negative -> {"NaN"}
      [] x = "Gt1" -> {"One", "Gt1"}
      [] OTHER -> {x}

\* np.exp
Exp(x) ==
    CASE x = "NaN" -> {"NaN"}
      [] x = "NInf" -> {"PZero"}
      [] x = "LtM1" -> {"PZero", "PFrac"}
      [] x = "M1" -> {"PFrac"}
      [] x = "NFrac" -> {"PFrac", "One"}
      [] x \in Zeros -> {"One"}
      [] x = "PFrac" -> {"One", "Gt1"}
      [] x = "One" -> {"Gt1"}
      [] x = "Gt1" -> {"Gt1", "PInf"}
      [] x = "PInf" -> {"PInf"}

\* scipy.stats.norm.cdf
Cdf(x) ==
    CASE x = "NaN" -> {"NaN"}
      [] x = "NInf" -> {"PZero"}
      [] x = "LtM1" -> {"PZero", "PFrac"}
      [] x = "Gt1" -> {"PFrac", "One"}
      [] x = "PInf" -> {"One"}
      [] OTHER -> {"PFrac"}

\* scipy.stats.norm.pdf
Pdf(x) ==
    CASE x = "NaN" -> {"NaN"}
      [] x \in {"NInf", "PInf"} -> {"PZero"}
      [] x \in {"LtM1", "Gt1"} -> {"PZero", "PFrac"}
      [] OTHER -> {"PFrac"}


\* ------------------------------------------------------------------------
\* black_scholes_functions.py
\* ------------------------------------------------------------------------

\* How the arguments reach the engine: all numpy float64 scalars ("numpy"),
\* all plain Python floats ("python"), or S a numpy float64 and the rest
\* Python floats ("mixed", what calculate_options_and_greeks passes).  Python
\* float division by zero and an overflowing Python ** raise; numpy scalar
\* arithmetic only warns and delivers inf or nan.
ScalarKinds == {"numpy", "python", "mixed"}

OptionTypes == {"call", "put", "other"}

Ret(v) == [kind |-> "return", val |-> v]
Raise(e) == [kind |-> "raise", val |-> e]

MulS(A, B) == UNION {Mul(a, b) : a \in A, b \in B}
AddS(A, B) == UNION {Add(a, b) : a \in A, b \in B}
SubS(A, B) == UNION {Sub(a, b) : a \in A, b \in B}
DivS(A, B) == UNION {Div(a, b) : a \in A, b \in B}

\* sigma**2
Pow2(x, scalars) ==
    CASE x = "NaN" -> {"NaN"}
      [] Mag(x) = "I" -> {"PInf"}
      [] Mag(x) = "Z" -> {"PZero"}
      [] Mag(x) = "O" -> {"One"}
      [] Mag(x) = "F" -> {"PZero", "PFrac"}
      [] Mag(x) = "G" -> IF scalars = "numpy" THEN {"Gt1", "PInf"} ELSE {"Gt1"}

\* np.exp(-r * T)
Discount(r, T) == UNION {Exp(x) : x \in Mul(Neg(r), T)}

DRec(a, b) == [kind |-> "return", d1 |-> a, d2 |-> b, val |-> "-"]
DRaise(e) == [kind |-> "raise", d1 |-> "-", d2 |-> "-", val |-> e]

calculate_d1_d2(S, K, T, r, sigma, scalars) ==
    IF scalars = "python" /\ K \in Zeros
    THEN {DRaise("ZeroDivisionError")}
    ELSE
      LET LogSK == UNION {Log(q) : q \in Div(S, K)}
          Drift == MulS(AddS({r}, MulS({"PFrac"}, Pow2(sigma, scalars))), {T})
          NumSet == AddS(LogSK, Drift)
          DenSet == MulS({sigma}, Sqrt(T))
      IN  (IF scalars # "numpy" /\ sigma # "NaN" /\ Mag(sigma) = "G"
           THEN {DRaise("OverflowError")} ELSE {})
          \cup
          UNION {UNION {UNION {{DRec(d1, d2) : d2 \in Sub(d1, den)}
                                 : d1 \in Div(num, den)}
                          : num \in NumSet}
                   : den \in DenSet}

\* S * norm.cdf(d1) - K * np.exp(-r * T) * norm.cdf(d2)
call_price_formula(S, K, T, r, d1, d2) ==
    SubS(MulS({S}, Cdf(d1)), MulS(MulS({K}, Discount(r, T)), Cdf(d2)))

\* K * np.exp(-r * T) * norm.cdf(-d2) - S * norm.cdf(-d1)
put_price_formula(S, K, T, r, d1, d2) ==
    SubS(MulS(MulS({K}, Discount(r, T)), Cdf(Neg(d2))), MulS({S}, Cdf(Neg(d1))))

delta_formula(d1, option_type) ==
    CASE option_type = "call" -> Cdf(d1)
      [] option_type = "put" -> SubS(Cdf(d1), {"One"})
      [] OTHER -> {"None"}

\* norm.pdf(d1) / (S * sigma * np.sqrt(T))
gamma_formula(S, T, sigma, d1) ==
    DivS(Pdf(d1), MulS(Mul(S, sigma), Sqrt(T)))

theta_formula(S, K, T, r, sigma, d1, d2, option_type) ==
    LET first_term ==
          DivS(MulS(MulS({Neg(S)}, Pdf(d1)), {sigma}), MulS({"Gt1"}, Sqrt(T)))
        rKdisc == MulS(Mul(r, K), Discount(r, T))
    IN  CASE option_type = "call" -> SubS(first_term, MulS(rKdisc, Cdf(d2)))
          [] option_type = "put" -> AddS(first_term, MulS(rKdisc, Cdf(Neg(d2))))
          [] OTHER -> {"None"}

\* S * norm.pdf(d1) * np.sqrt(T)
vega_formula(S, T, d1) == MulS(MulS({S}, Pdf(d1)), Sqrt(T))

rho_formula(K, T, r, d2, option_type) ==
    CASE option_type = "call" ->
           MulS(MulS(Mul(K, T), Discount(r, T)), Cdf(d2))
      [] option_type = "put" ->
           MulS(MulS(Mul(Neg(K), T), Discount(r, T)), Cdf(Neg(d2)))
      [] OTHER -> {"None"}

\* d1, d2 = calculate_d1_d2(...), then the formula; an exception of
\* calculate_d1_d2 propagates.
black_scholes_call(S, K, T, r, sigma, scalars) ==
    UNION {IF d.kind = "raise"
           THEN {Raise(d.val)}
           ELSE {Ret(v) : v \in call_price_formula(S, K, T, r, d.d1, d.d2)}
             : d \in calculate_d1_d2(S, K, T, r, sigma, scalars)}

black_scholes_put(S, K, T, r, sigma, scalars) ==
    UNION {IF d.kind = "raise"
           THEN {Raise(d.val)}
           ELSE {Ret(v) : v \in put_price_formula(S, K, T, r, d.d1, d.d2)}
             : d \in calculate_d1_d2(S, K, T, r, sigma, scalars)}

delta(S, K, T, r, sigma, option_type, scalars) ==
    UNION {IF d.kind = "raise"
           THEN {Raise(d.val)}
           ELSE {Ret(v) : v \in delta_formula(d.d1, option_type)}
             : d \in calculate_d1_d2(S, K, T, r, sigma, scalars)}

gamma(S, K, T, r, sigma, scalars) ==
    UNION {IF d.kind = "raise"
           THEN {Raise(d.val)}
           ELSE {Ret(v) : v \in gamma_formula(S, T, sigma, d.d1)}
             : d \in calculate_d1_d2(S, K, T, r, sigma, scalars)}

theta(S, K, T, r, sigma, option_type, scalars) ==
    UNION {IF d.kind = "raise"
           THEN {Raise(d.val)}
           ELSE {Ret(v) : v \in theta_formula(S, K, T, r, sigma, d.d1, d.d2, option_type)}
             : d \in calculate_d1_d2(S, K, T, r, sigma, scalars)}

vega(S, K, T, r, sigma, scalars) ==
    UNION {IF d.kind = "raise"
           THEN {Raise(d.val)}
           ELSE {Ret(v) : v \in vega_formula(S, T, d.d1)}
             : d \in calculate_d1_d2(S, K, T, r, sigma, scalars)}

rho(S, K, T, r, sigma, option_type, scalars) ==
    UNION {IF d.kind = "raise"
           THEN {Raise(d.val)}
           ELSE {Ret(v) : v \in rho_formula(K, T, r, d.d2, option_type)}
             : d \in calculate_d1_d2(S, K, T, r, sigma, scalars)}

\* ------------------------------------------------------------------------
\* load_financial_data.py
\* ------------------------------------------------------------------------

\* What stock.history(period='1d') delivers.
PriceResponses == {"empty", "data"}

\* What the TREASURY_YIELD request delivers: a JSON body whose data[-1]
\* ['value'] parses as a float ("ok"), a body without the 'data' key (an
\* error or rate-limit note), a body whose data list is empty, a last entry
\* whose value is not a number ("."), or no decodable body at all.
RateResponses == {"ok", "no_data_key", "empty_data", "not_a_number", "no_body"}

\* recent_data.empty raises; otherwise recent_data['Close'].iloc[-1]
fetch_current_stock_price(history, close) ==
    IF history # "empty" THEN Ret(close) ELSE Raise("ValueError")

\* A fetcher that answers a response without a usable rate with a default
\* rate instead of an exception (what C5 rules out).
fetch_risk_free_rate_default(response, rate) ==
    IF response = "ok" THEN {Ret(v) : v \in Div(rate, "Gt1")} ELSE {Ret("PFrac")}

\* data['data'][-1]['value'], then float(rate) / 100
fetch_risk_free_rate(response, rate) ==
    CASE response = "ok" -> {Ret(v) : v \in Div(rate, "Gt1")}
      [] response = "no_data_key" -> {Raise("KeyError")}
      [] response = "empty_data" -> {Raise("IndexError")}
      [] response = "not_a_number" -> {Raise("ValueError")}
      [] response = "no_body" -> {Raise("RequestException")}

\* ------------------------------------------------------------------------
\* app.py: calculate_options_and_greeks
\* ------------------------------------------------------------------------

\* Times are counted in ticks of 0.01 / StartTicks years (the resolution of
\* the model); the chart starts at 0.01 = StartTicks ticks.
StartTicks == 2
TicksPerYear == 100 * StartTicks
\* np.linspace(0.01, T, 100)
NumSamples == 100
\* The engine calls of lines 136-142, in order, then the two chart loops.
MainOps == <<"black_scholes_call", "black_scholes_put", "delta", "gamma",
             "theta", "vega", "rho">>
TotalEngineCalls == Len(MainOps) + 2 * NumSamples

\* Bounds of the model.
MaxClicks == 1
MaxSmallT == 4

\* Time to maturity entered by the user, in ticks: negative, zero, below,
\* at and above 0.01, one year and more.
TValues == (-1 .. MaxSmallT) \cup {TicksPerYear, TicksPerYear + MaxSmallT}
UserClasses == {"PZero", "PFrac", "One", "Gt1"}
CloseClasses == {"PFrac", "Gt1"}
RateClasses == {"NFrac", "PZero", "Gt1"}

\* The class of the double num / den (den > 0).
ClassOf(num, den) ==
    CASE num < 0 - den -> "LtM1"
      [] num = 0 - den -> "M1"
      [] num < 0 -> "NFrac"
      [] num = 0 -> "PZero"
      [] num < den -> "PFrac"
      [] num = den -> "One"
      [] OTHER -> "Gt1"

\* np.linspace(0, Tn, NumSamples): a grid that starts at 0 (what C10 rules
\* out).
Linspace_from_zero(Tn, k) == k * Tn

\* times[k] of np.linspace(0.01, Tn, NumSamples), as a numerator over
\* TicksPerYear * (NumSamples - 1): start + k * step, the last sample set to
\* the end point.
Linspace(Tn, k) ==
    IF k = NumSamples - 1
    THEN Tn * (NumSamples - 1)
    ELSE StartTicks * (NumSamples - 1) + k * (Tn - StartTicks)

\* A guard that never takes the early return (what C9 rules out).
NoClickYet_never(n) == n < 0

\* if n_clicks == 0: return early
NoClickYet(n) == n = 0

\* return "", go.Figure()
EarlyReturn == <<"", "Figure">>

\* return results, call_fig, put_fig
FullReturn == <<"results", "call_fig", "put_fig">>

\* The three Output(...) of the @app.callback decorator.
DeclaredOutputs == <<"results.children", "call-price-over-time.figure",
                     "put-price-over-time.figure">>

NoCall == [op |-> "-", S |-> "-", K |-> "-", tnum |-> 0, r |-> "-", sigma |-> "-"]
NoD == [d1 |-> "-", d2 |-> "-"]

VARIABLES
    \* a direct call of an engine function
    epc, ecall, eout,
    \* one invocation of calculate_options_and_greeks
    pc, n_clicks, K, T, sigma, S, r, dd, call_price, put_price, i, ret, err,
    \* what the invocation did to its collaborators
    priceResp, rateResp, nPriceFetch, nRateFetch, nEngine, lastCall

evars == <<epc, ecall, eout>>
cvars == <<pc, n_clicks, K, T, sigma, S, r, dd, call_price, put_price,
           i, ret, err, priceResp, rateResp, nPriceFetch, nRateFetch, nEngine,
           lastCall>>
vars == <<evars, cvars>>

NoECall == [op |-> "-", S |-> "-", K |-> "-", T |-> "-", r |-> "-",
            sigma |-> "-", option_type |-> "-", scalars |-> "-"]

Init ==
    /\ epc = "idle" /\ ecall = NoECall /\ eout = Ret("-")
    /\ pc = "idle" /\ n_clicks = 0 /\ K = "-" /\ T = 0 /\ sigma = "-"
    /\ S = "-" /\ r = "-" /\ dd = NoD /\ call_price = "-" /\ put_price = "-"
    /\ i = 0 /\ ret = <<>> /\ err = "-"
    /\ priceResp = "-" /\ rateResp = "-"
    /\ nPriceFetch = 0 /\ nRateFetch = 0 /\ nEngine = 0 /\ lastCall = NoCall

\* ------------------------------------------------------------------------
\* Direct calls of the engine (the library surface)
\* ------------------------------------------------------------------------

EngineInputs == {"NaN", "NFrac", "PZero", "PFrac", "One", "Gt1", "PInf"}
EngineRates == {"LtM1", "PZero", "PFrac"}

ECall(op, a, b, c, d, e, ot, sc, outs) ==
    /\ epc' = "done"
    /\ ecall' = [op |-> op, S |-> a, K |-> b, T |-> c, r |-> d, sigma |-> e,
                 option_type |-> ot, scalars |-> sc]
    /\ eout' \in outs
    /\ UNCHANGED cvars

Call_black_scholes_call ==
    /\ epc = "idle"
    /\ \E a, b, c, e \in EngineInputs, d \in EngineRates, sc \in ScalarKinds :
        ECall("black_scholes_call", a, b, c, d, e, "-", sc,
              black_scholes_call(a, b, c, d, e, sc))

Call_black_scholes_put ==
    /\ epc = "idle"
    /\ \E a, b, c, e \in EngineInputs, d \in EngineRates, sc \in ScalarKinds :
        ECall("black_scholes_put", a, b, c, d, e, "-", sc,
              black_scholes_put(a, b, c, d, e, sc))

Call_delta ==
    /\ epc = "idle"
    /\ \E a, b, c, e \in EngineInputs, d \in EngineRates, sc \in ScalarKinds,
          ot \in OptionTypes :
        ECall("delta", a, b, c, d, e, ot, sc, delta(a, b, c, d, e, ot, sc))

Call_gamma ==
    /\ epc = "idle"
    /\ \E a, b, c, e \in EngineInputs, d \in EngineRates, sc \in ScalarKinds :
        ECall("gamma", a, b, c, d, e, "-", sc, gamma(a, b, c, d, e, sc))

Call_theta ==
    /\ epc = "idle"
    /\ \E a, b, c, e \in EngineInputs, d \in EngineRates, sc \in ScalarKinds,
          ot \in OptionTypes :
        ECall("theta", a, b, c, d, e, ot, sc, theta(a, b, c, d, e, ot, sc))

Call_vega ==
    /\ epc = "idle"
    /\ \E a, b, c, e \in EngineInputs, d \in EngineRates, sc \in ScalarKinds :
        ECall("vega", a, b, c, d, e, "-", sc, vega(a, b, c, d, e, sc))

Call_rho ==
    /\ epc = "idle"
    /\ \E a, b, c, e \in EngineInputs, d \in EngineRates, sc \in ScalarKinds,
          ot \in OptionTypes :
        ECall("rho", a, b, c, d, e, ot, sc, rho(a, b, c, d, e, ot, sc))

\* The caller has the outcome; the engine keeps nothing.
EDone ==
    /\ epc = "done"
    /\ epc' = "idle" /\ ecall' = NoECall /\ eout' = Ret("-")
    /\ UNCHANGED cvars

NextEngine ==
    \/ Call_black_scholes_call
    \/ Call_black_scholes_put
    \/ Call_delta
    \/ Call_gamma
    \/ Call_theta
    \/ Call_vega
    \/ Call_rho
    \/ EDone

SpecEngine == Init /\ [][NextEngine]_vars

\* ------------------------------------------------------------------------
\* The callback, one step per statement
\* ------------------------------------------------------------------------

Tc == ClassOf(T, TicksPerYear)

\* Dash calls the callback with the current values of its five inputs.
Invoke ==
    /\ pc = "idle"
    /\ \E n \in 0 .. MaxClicks, k \in UserClasses, t \in TValues,
          sg \in UserClasses :
          /\ n_clicks' = n /\ K' = k /\ T' = t /\ sigma' = sg
    /\ pc' = "check"
    /\ UNCHANGED <<evars, S, r, dd, call_price, put_price, i, ret, err,
                   priceResp, rateResp, nPriceFetch, nRateFetch, nEngine,
                   lastCall>>

\* if n_clicks == 0: return "", go.Figure()
CheckClicks ==
    /\ pc = "check"
    /\ IF NoClickYet(n_clicks)
       THEN pc' = "returned" /\ ret' = EarlyReturn
       ELSE pc' = "fetch_price" /\ ret' = ret
    /\ UNCHANGED <<evars, n_clicks, K, T, sigma, S, r, dd, call_price,
                   put_price, i, err, priceResp, rateResp, nPriceFetch,
                   nRateFetch, nEngine, lastCall>>

\* S = fetch_current_stock_price(ticker)
FetchPrice ==
    /\ pc = "fetch_price"
    /\ \E h \in PriceResponses, c \in CloseClasses :
         LET o == fetch_current_stock_price(h, c)
         IN  /\ priceResp' = h
             /\ IF o.kind = "raise"
                THEN pc' = "raised" /\ err' = o.val /\ S' = S
                ELSE pc' = "read_env" /\ err' = err /\ S' = o.val
    /\ nPriceFetch' = nPriceFetch + 1
    /\ UNCHANGED <<evars, n_clicks, K, T, sigma, r, dd, call_price,
                   put_price, i, ret, rateResp, nRateFetch, nEngine, lastCall>>

\* api_key = os.environ['ALPHA_VANTAGE_API_KEY']: a KeyError when the
\* variable is not set (app.py never calls load_dotenv).
ReadEnv ==
    /\ pc = "read_env"
    /\ \E present \in BOOLEAN :
         IF present
         THEN pc' = "fetch_rate" /\ err' = err
         ELSE pc' = "raised" /\ err' = "KeyError"
    /\ UNCHANGED <<evars, n_clicks, K, T, sigma, S, r, dd, call_price,
                   put_price, i, ret, priceResp, rateResp, nPriceFetch,
                   nRateFetch, nEngine, lastCall>>

\* r = fetch_risk_free_rate(api_key)
FetchRate ==
    /\ pc = "fetch_rate"
    /\ \E resp \in RateResponses, rate \in RateClasses :
         \E o \in fetch_risk_free_rate(resp, rate) :
             /\ rateResp' = resp
             /\ IF o.kind = "raise"
                THEN pc' = "raised" /\ err' = o.val /\ r' = r
                ELSE pc' = "call_price" /\ err' = err /\ r' = o.val
    /\ nRateFetch' = nRateFetch + 1
    /\ UNCHANGED <<evars, n_clicks, K, T, sigma, S, dd, call_price,
                   put_price, i, ret, priceResp, nPriceFetch, nEngine,
                   lastCall>>

\* The arguments of an engine call at time tnum / (TicksPerYear * (NumSamples - 1)) years.
CallRec(op, tnum) ==
    [op |-> op, S |-> S, K |-> K, tnum |-> tnum, r |-> r, sigma |-> sigma]

Greek(op) ==
    /\ nEngine' = nEngine + 1
    /\ lastCall' = CallRec(op, T * (NumSamples - 1))
    /\ UNCHANGED <<evars, n_clicks, K, T, sigma, S, r, i, ret,
                   priceResp, rateResp, nPriceFetch, nRateFetch>>

\* call_price = black_scholes_call(S, K, T, r, sigma)
CallPrice ==
    /\ pc = "call_price"
    /\ \E d \in calculate_d1_d2(S, K, Tc, r, sigma, "mixed") :
         IF d.kind = "raise"
         THEN /\ pc' = "raised" /\ err' = d.val
              /\ UNCHANGED <<dd, call_price>>
         ELSE /\ pc' = "put_price" /\ err' = err
              /\ dd' = [d1 |-> d.d1, d2 |-> d.d2]
              /\ call_price' \in call_price_formula(S, K, Tc, r, d.d1, d.d2)
    /\ put_price' = put_price
    /\ Greek("black_scholes_call")

\* put_price = black_scholes_put(S, K, T, r, sigma): the same arguments give
\* the same d1, d2 as in the line before.
PutPrice ==
    /\ pc = "put_price"
    /\ pc' = "delta"
    /\ put_price' \in put_price_formula(S, K, Tc, r, dd.d1, dd.d2)
    /\ dd' = NoD
    /\ UNCHANGED <<call_price, err>>
    /\ Greek("black_scholes_put")

\* The other five values are only formatted: the model records the call and
\* keeps no value.
Discard(here, next, op) ==
    /\ pc = here
    /\ pc' = next
    /\ UNCHANGED <<dd, call_price, put_price, err>>
    /\ Greek(op)

\* delta_call = delta(S, K, T, r, sigma, option_type='call')
DeltaCall == Discard("delta", "gamma", "delta")

\* gamma_value = gamma(S, K, T, r, sigma)
GammaValue == Discard("gamma", "theta", "gamma")

\* theta_call = theta(S, K, T, r, sigma, option_type='call')
ThetaCall == Discard("theta", "vega", "theta")

\* vega_value = vega(S, K, T, r, sigma)
VegaValue == Discard("vega", "rho", "vega")

\* rho_call = rho(S, K, T, r, sigma, option_type='call')
RhoCall == Discard("rho", "format", "rho")

\* results = html.Div([...]); times = np.linspace(0.01, T, 100).  From here
\* on only the formatted strings of the seven values are used.
Format ==
    /\ pc = "format"
    /\ pc' = "chart_call"
    /\ i' = 0
    /\ call_price' = "-" /\ put_price' = "-"
    /\ UNCHANGED <<evars, n_clicks, K, T, sigma, S, r, dd, ret, err,
                   priceResp, rateResp, nPriceFetch, nRateFetch, nEngine,
                   lastCall>>

\* One iteration of a chart loop.  With these argument types only sigma**2
\* can raise, and it did not in line 136: the call returns, and its value
\* goes into a list that only the figure reads.
ChartStep(here, next, op) ==
    /\ pc = here
    /\ nEngine' = nEngine + 1
    /\ lastCall' = CallRec(op, Linspace(T, i))
    /\ IF i = NumSamples - 1
       THEN pc' = next /\ i' = 0
       ELSE pc' = here /\ i' = i + 1
    /\ UNCHANGED <<evars, n_clicks, K, T, sigma, S, r, dd, call_price,
                   put_price, ret, err, priceResp, rateResp, nPriceFetch,
                   nRateFetch>>

\* [black_scholes_call(S, K, t, r, sigma) for t in times]
ChartCall == ChartStep("chart_call", "chart_put", "black_scholes_call")

\* [black_scholes_put(S, K, t, r, sigma) for t in times]
ChartPut == ChartStep("chart_put", "figures", "black_scholes_put")

\* the two figures; return results, call_fig, put_fig
Return ==
    /\ pc = "figures"
    /\ pc' = "returned"
    /\ ret' = FullReturn
    /\ UNCHANGED <<evars, n_clicks, K, T, sigma, S, r, dd, call_price,
                   put_price, i, err, priceResp, rateResp, nPriceFetch,
                   nRateFetch, nEngine, lastCall>>

\* Dash takes the result, or the exception, and the callback is over: its
\* locals are gone.
Finish ==
    /\ pc \in {"returned", "raised"}
    /\ pc' = "idle" /\ n_clicks' = 0 /\ K' = "-" /\ T' = 0 /\ sigma' = "-"
    /\ S' = "-" /\ r' = "-" /\ dd' = NoD /\ call_price' = "-"
    /\ put_price' = "-" /\ i' = 0 /\ ret' = <<>> /\ err' = "-"
    /\ priceResp' = "-" /\ rateResp' = "-"
    /\ nPriceFetch' = 0 /\ nRateFetch' = 0 /\ nEngine' = 0
    /\ lastCall' = NoCall
    /\ UNCHANGED evars

Next ==
    \/ Invoke
    \/ CheckClicks
    \/ FetchPrice
    \/ ReadEnv
    \/ FetchRate
    \/ CallPrice
    \/ PutPrice
    \/ DeltaCall
    \/ GammaValue
    \/ ThetaCall
    \/ VegaValue
    \/ RhoCall
    \/ Format
    \/ ChartCall
    \/ ChartPut
    \/ Return
    \/ Finish

Spec == Init /\ [][Next]_vars

\* ------------------------------------------------------------------------
\* Properties
\* ------------------------------------------------------------------------

Min(a, b) == IF a < b THEN a ELSE b
Max(a, b) == IF a < b THEN b ELSE a

NonNegative == {"NZero", "PZero", "PFrac", "One", "Gt1", "PInf"}

\* S, K, T, sigma finite and > 0, r finite
ValidArgs(a, b, c, d, e) ==
    /\ a \in ValidPositive /\ b \in ValidPositive /\ c \in ValidPositive
    /\ e \in ValidPositive /\ d \in Finite

EValid == ValidArgs(ecall.S, ecall.K, ecall.T, ecall.r, ecall.sigma)

\* Some doubles of the classes c (call) and p (put) satisfy
\* |(c - p) - (S - K * exp(-r * T))| < 1: both sides are numbers and their
\* classes admit a difference between -1 and 1.  The classes cannot express
\* the tolerance 1e-6 itself; this is what parity requires of them.
ParityPossible(c, p) ==
    \E l \in Sub(c, p), rhs \in SubS({S}, MulS({K}, Discount(r, Tc))) :
        \E d \in Sub(l, rhs) : d \in {"NFrac", "NZero", "PZero", "PFrac"}

\* C1: for valid inputs the call price minus the put price of the same
\* arguments equals S - K * e^(-r * T) within the tolerance (lines 136-137
\* compute both).
C1_PutCallParity ==
    (pc = "delta" /\ ValidArgs(S, K, Tc, r, sigma))
        => ParityPossible(call_price, put_price)

\* C2: an engine call with S, K, T or sigma <= 0, or with a non-finite input,
\* fails with InvalidInput.
C2_InvalidInputRejected ==
    (epc = "done" /\ ~EValid) => eout = Raise("InvalidInput")

\* C3: delta, theta and rho with an option type other than call and put fail
\* with UnsupportedOptionType.
C3_UnsupportedOptionType ==
    (/\ epc = "done"
     /\ ecall.op \in {"delta", "theta", "rho"}
     /\ ecall.option_type \notin {"call", "put"})
        => eout = Raise("UnsupportedOptionType")

\* C4: for valid inputs a returned call delta is in [0,1], a returned put
\* delta in [-1,0], and a returned gamma or vega is >= 0.
C4_GreekBounds ==
    (epc = "done" /\ EValid /\ eout.kind = "return") =>
        /\ (ecall.op = "delta" /\ ecall.option_type = "call")
               => eout.val \in {"NZero", "PZero", "PFrac", "One"}
        /\ (ecall.op = "delta" /\ ecall.option_type = "put")
               => eout.val \in {"M1", "NFrac", "NZero", "PZero"}
        /\ ecall.op \in {"gamma", "vega"} => eout.val \in NonNegative

\* C5: when the price history is empty or the rate response holds no usable
\* rate, the invocation ends in an exception: no engine call, nothing
\* returned, no price or rate substituted, no second fetch.
UpstreamUnavailable ==
    priceResp = "empty" \/ rateResp \in RateResponses \ {"ok"}

C5_UpstreamFailureSurfaces ==
    UpstreamUnavailable =>
        /\ pc = "raised" /\ err # "-"
        /\ ret = <<>>
        /\ nEngine = 0 /\ lastCall = NoCall
        /\ nPriceFetch <= 1 /\ nRateFetch <= 1
        /\ priceResp = "empty" => (S = "-" /\ nRateFetch = 0)
        /\ r = "-"

C5_Witness ==
    /\ pc = "raised" /\ rateResp = "no_data_key"
    /\ priceResp = "data" /\ nRateFetch = 1

\* C7: for valid inputs a returned call price is >= 0.
C7_CallNonNegative ==
    (/\ epc = "done" /\ EValid /\ ecall.op = "black_scholes_call"
     /\ eout.kind = "return")
        => eout.val \in NonNegative

\* C8: every return of the callback delivers one value per declared output.
C8_ThreeOutputs ==
    pc = "returned" => Len(ret) = Len(DeclaredOutputs)

\* C9: with n_clicks = 0 an invocation fetches nothing and calls no engine
\* function; otherwise the price fetch, then the rate fetch, complete before
\* the first engine call, and every engine call gets the fetched S and r.
C9_State ==
    /\ n_clicks = 0 => (nPriceFetch = 0 /\ nRateFetch = 0 /\ nEngine = 0)
    /\ nRateFetch > 0 => (nPriceFetch = 1 /\ priceResp = "data" /\ S # "-")
    /\ nEngine > 0 =>
          /\ nPriceFetch = 1 /\ nRateFetch = 1
          /\ priceResp = "data" /\ rateResp = "ok"
          /\ S # "-" /\ r # "-"
          /\ lastCall.S = S /\ lastCall.r = r

C9_FetchBeforeEngine ==
    /\ []C9_State
    /\ [][(nEngine > 0 /\ nEngine' > nEngine)
             => (lastCall'.S = lastCall.S /\ lastCall'.r = lastCall.r)]_vars

C9_Witness ==
    /\ pc = "returned" /\ n_clicks > 0 /\ nEngine = TotalEngineCalls

\* C10: for T > 0 every chart sample time handed to the engine is > 0 and
\* lies between 0.01 and T, end points included: in [0.01, T] when
\* T >= 0.01, and in [T, 0.01] when the user enters a T below 0.01 (the grid
\* then runs downwards from 0.01 to T).
C10_ChartTimes ==
    (T > 0 /\ nEngine > Len(MainOps)) =>
        /\ lastCall.tnum > 0
        /\ Min(StartTicks, T) * (NumSamples - 1) <= lastCall.tnum
        /\ lastCall.tnum <= Max(StartTicks, T) * (NumSamples - 1)

C10_Witness ==
    /\ T > 0 /\ T < StartTicks
    /\ pc = "chart_put" /\ i = NumSamples - 1
    /\ lastCall.tnum > T * (NumSamples - 1)

====
